---- MODULE Spec2Model ----
(***************************************************************************)
(* Model of market_data_fetcher.py: the resilient requester robust_post,   *)
(* the symbol cache get_valid_symbols (module global CACHED_SYMBOLS) and   *)
(* the tick extraction / OHLC aggregation of get_market_data.              *)
(*                                                                         *)
(* Spec     : concurrent callers of get_valid_symbols (threads interleave  *)
(*            at every network call, sleep and access to the global).      *)
(* SpecSeq  : the same callers, one call at a time.                        *)
(* SpecMD   : one call of get_market_data (it shares no state with any     *)
(*            other call, so one caller shows all its behaviours).         *)
(***************************************************************************)
EXTENDS Integers, Sequences, FiniteSets, TLC

\* ------------------------------------------------------------------ bounds
\* calls made in one run, and matches of one field pattern in one message
MaxCalls == 3
MaxTicks == 3
\* Longest text given to the symbol pattern, the two texts of the specification aside
MaxText == 6

\* Two callers are enough for every order of two racing first-time callers
Threads == {"t1", "t2"}

\* ------------------------------------------------------- program constants
\* robust_post(..., max_retries: int = 3)
max_retries_two == 3 - 1
max_retries == 3

\* LOCAL_FALLBACK_DATA["symbols"], each ticker as its sequence of characters
LOCAL_FALLBACK_DATA ==
  << <<"A","A","P","L">>, <<"M","E","T","A">>, <<"G","O","O","G","L">>,
     <<"M","S","F","T">>, <<"A","M","Z","N">>, <<"T","S","L","A">>,
     <<"N","V","D","A">>, <<"I","B","M">>, <<"O","R","C","L">> >>

\* ------------------------------------------------------------ Python values
\* None, and a value wrapped so that it compares with None
None == [tag |-> "None"]
Some(v) == [tag |-> "value", val |-> v]
\* a raised exception, and the marker of a call that has not returned
Exc(name) == [tag |-> "exception", name |-> name]
IsExc(x) == x.tag = "exception"
NoRet == [tag |-> "NoRet"]
NoBody == [kind |-> "unread", message |-> <<>>]

\* set(list): the distinct elements of a list
ListToSet(l) == {l[i] : i \in 1..Len(l)}

\* ------------------------------------------------------- symbol extraction
UpperChars ==
  {"A","B","C","D","E","F","G","H","I","J","K","L","M",
   "N","O","P","Q","R","S","T","U","V","W","X","Y","Z"}
LowerChars ==
  {"a","b","c","d","e","f","g","h","i","j","k","l","m",
   "n","o","p","q","r","s","t","u","v","w","x","y","z"}
DigitChars == {"0","1","2","3","4","5","6","7","8","9"}

\* \w of the regular expression: letter, digit or underscore
IsWordChar(c) == c \in UpperChars \cup LowerChars \cup DigitChars \cup {"_"}

\* \b at the gap before position i (1..Len+1) of msg
WordBoundary(msg, i) ==
  LET before == i > 1 /\ IsWordChar(msg[i-1])
      after == i <= Len(msg) /\ IsWordChar(msg[i])
  IN before # after

MatchLens_noLeadingBoundary(msg, i) ==
  {k \in 1..5 :
     /\ i + k - 1 <= Len(msg)
     /\ \A j \in i..(i+k-1) : msg[j] \in UpperChars
     /\ WordBoundary(msg, i + k)
     /\ ~(i + k <= Len(msg) /\ IsWordChar(msg[i+k]))}

\* the lengths k for which \b[A-Z]{k}\b(?![\w\d]) matches at position i
MatchLens(msg, i) ==
  {k \in 1..5 :
     /\ i + k - 1 <= Len(msg)
     /\ WordBoundary(msg, i)
     /\ \A j \in i..(i+k-1) : msg[j] \in UpperChars
     /\ WordBoundary(msg, i + k)
     /\ ~(i + k <= Len(msg) /\ IsWordChar(msg[i+k]))}

MaxOf(S) == CHOOSE x \in S : \A y \in S : y <= x
MinOf(S) == CHOOSE x \in S : \A y \in S : x <= y

\* re.findall(r'\b[A-Z]{1,5}\b(?![\w\d])', message): leftmost, greedy,
\* non-overlapping matches from position i on
RECURSIVE FindAllFrom(_, _)
FindAllFrom(msg, i) ==
  IF i > Len(msg) THEN <<>>
  ELSE IF MatchLens(msg, i) = {} THEN FindAllFrom(msg, i + 1)
  ELSE LET k == MaxOf(MatchLens(msg, i))
       IN <<SubSeq(msg, i, i + k - 1)>> \o FindAllFrom(msg, i + k)

FindSymbols(msg) == FindAllFrom(msg, 1)

\* --------------------------------------------------------- provider inputs
\* What one POST can do: raise requests.exceptions.RequestException, or
\* answer with a status code.
ExcOutcome == [exc |-> TRUE, status |-> 0]
StatusOutcome(s) == [exc |-> FALSE, status |-> s]
Statuses == {200, 204, 500}
Outcomes == {ExcOutcome} \cup {StatusOutcome(s) : s \in Statuses}

\* Messages the provider may answer the symbol query with
SymbolMessages ==
  { <<"I","B","M">>,
    <<"A"," ","B","B"," ","A">>,
    <<"u","p"," ","I","B","M","x">> }

\* A response body: not JSON at all, a JSON array, a JSON object without
\* "message", or a JSON object with a string "message"
SymbolBodies ==
  {[kind |-> "invalid", message |-> <<>>],
   [kind |-> "array", message |-> <<>>],
   [kind |-> "nomsg", message |-> <<>>]}
  \cup {[kind |-> "msg", message |-> m] : m \in SymbolMessages}

\* ----------------------------------------------------------- tick parsing
\* The text of a market-data message is represented by what the three
\* independent field patterns capture from it, in the order of the text:
\* the [\d\.]+ tokens after "**Price:** $", the \d+ tokens after "**Size:**"
\* and the date tokens after "**Timestamp:**". A date token is the six
\* digit groups that \d{4}-\d{2}-\d{2} \d{2}:\d{2}:\d{2} captured.
DigitVal(c) ==
  CASE c = "0" -> 0 [] c = "1" -> 1 [] c = "2" -> 2 [] c = "3" -> 3
    [] c = "4" -> 4 [] c = "5" -> 5 [] c = "6" -> 6 [] c = "7" -> 7
    [] c = "8" -> 8 [] c = "9" -> 9

RECURSIVE DigitsValue(_)
DigitsValue(ds) ==
  IF ds = <<>> THEN 0
  ELSE 10 * DigitsValue(SubSeq(ds, 1, Len(ds) - 1)) + DigitVal(ds[Len(ds)])

\* float(price) of a token of digits and dots: ValueError unless it has one
\* dot at most and a digit; the value is kept in hundredths (tokens carry at
\* most two decimals)
ParseFloat(tok) ==
  LET dots == {i \in 1..Len(tok) : tok[i] = "."}
  IN IF Cardinality(dots) > 1 \/ Len(tok) = Cardinality(dots)
     THEN Exc("ValueError")
     ELSE IF dots = {} THEN Some(100 * DigitsValue(tok))
     ELSE LET d == CHOOSE i \in dots : TRUE
              int == SubSeq(tok, 1, d - 1)
              frac == SubSeq(tok, d + 1, Len(tok))
              scale == IF Len(frac) = 0 THEN 100 ELSE IF Len(frac) = 1 THEN 10 ELSE 1
          IN Some(100 * DigitsValue(int) + scale * DigitsValue(frac))

\* An integer v is kept as the pair (q, r) with v = q * 2^62 + r and
\* 0 <= r < 2^62, which lets the model hold the values of an int64 column
Int62Token ==
  <<"4","6","1","1","6","8","6","0","1","8","4","2","7","3","8","7","9","0","4">>
IntPair(q, r) == [q |-> q, r |-> r]

\* int(size) of a token of digits: of the tokens longer than 9 digits the
\* inputs hold the decimal form of 2^62 only
ParseInt(tok) ==
  IF tok = Int62Token THEN Some(IntPair(1, 0))
  ELSE Some(IntPair(0, DigitsValue(tok)))

IsLeap(y) == (y % 4 = 0 /\ y % 100 # 0) \/ y % 400 = 0
DaysInMonth(y, m) ==
  IF m = 2 THEN (IF IsLeap(y) THEN 29 ELSE 28)
  ELSE IF m \in {4, 6, 9, 11} THEN 30 ELSE 31

\* pd.to_datetime(timestamp, utc=True): ValueError for a date that does not
\* exist; otherwise the instant, as a number that orders instants as time does
\* (counted from the year 2000, which keeps it within TLC's integers)
ToDatetime(tok) ==
  IF /\ tok.month \in 1..12
     /\ tok.day \in 1..DaysInMonth(tok.year, tok.month)
     /\ tok.hour \in 0..23
     /\ tok.minute \in 0..59
     /\ tok.second \in 0..59
  THEN Some((((((tok.year - 2000) * 13 + tok.month) * 32 + tok.day) * 24 + tok.hour) * 60
             + tok.minute) * 60 + tok.second)
  ELSE Exc("ValueError")

Date(y, mo, d, h, mi, s) ==
  [year |-> y, month |-> mo, day |-> d, hour |-> h, minute |-> mi, second |-> s]

PriceTokens == { <<"9">>, <<"1","0">>, <<"1",".","2",".","3">> }
SizeTokens == { <<"5">>, Int62Token }
TimestampTokens ==
  { Date(2024, 1, 2, 10, 0, 0), Date(2024, 1, 2, 10, 3, 0), Date(2024, 2, 30, 10, 0, 0) }

SeqsUpTo(S, n) == UNION {[1..k -> S] : k \in 0..n}

MarketMessages ==
  [prices : SeqsUpTo(PriceTokens, MaxTicks),
   sizes : SeqsUpTo(SizeTokens, MaxTicks),
   timestamps : SeqsUpTo(TimestampTokens, MaxTicks)]

EmptyText == [prices |-> <<>>, sizes |-> <<>>, timestamps |-> <<>>]

MarketBodies ==
  {[kind |-> "invalid", message |-> EmptyText],
   [kind |-> "array", message |-> EmptyText],
   [kind |-> "nomsg", message |-> EmptyText]}
  \cup {[kind |-> "msg", message |-> m] : m \in MarketMessages}

\* Texts for the symbol pattern: every text of MaxText characters at most over
\* an uppercase letter, a lowercase letter, a digit, the underscore and the
\* space, and the two texts the specification names
SymChars == {"A", "b", "1", "_", " "}
ExampleUp == <<"A","A","P","L"," ","a","n","d"," ","M","S","F","T"," ","a","r","e"," ","u","p",","," ","G","O","O","G","L"," ","i","s"," ","d","o","w","n">>
ExampleOpen == <<"t","h","e"," ","m","a","r","k","e","t"," ","i","s"," ","o","p","e","n">>
SymTexts == SeqsUpTo(SymChars, MaxText) \cup {ExampleUp, ExampleOpen}

\* ------------------------------------------------------------------- state
VARIABLES
  CACHED_SYMBOLS,  \* the module global: None or Some(set of tickers)
  pc,              \* per thread: where the thread is in its call
  op,              \* per thread: "gvs" (get_valid_symbols) or "md" (get_market_data)
  attempt,         \* per thread: robust_post's loop variable
  log,             \* per thread: robust_post's network attempts and sleeps, in order
  response,        \* per thread: what robust_post returned (None or a response)
  body,            \* per thread: the body the caller read from the response
  resolved,        \* per thread: the set get_valid_symbols is about to store
  ret,             \* per thread: the value the last call returned
  ncalls,          \* calls started so far
  queries,         \* robust_post invocations made by get_valid_symbols so far
  first_ret,       \* the value the first completed get_valid_symbols returned
  price_data,      \* get_market_data: the validated ticks, in zip order
  handler,         \* api_service: the endpoint being served, "none" between requests
  http,            \* api_service: the response sent to the last request
  last_successful_data_fetch,  \* api_service's module global
  services_health, \* root: the status check_services_health gave the provider
  sym_text,        \* a text given to the symbol pattern
  sym_found        \* what the pattern found in it, as a set

\* What the functions of market_data_fetcher.py never touch
extVars == <<handler, http, last_successful_data_fetch, services_health,
             sym_text, sym_found>>

vars == <<CACHED_SYMBOLS, pc, op, attempt, log, response, body, resolved, ret,
          ncalls, queries, first_ret, price_data, handler, http,
          last_successful_data_fetch, services_health, sym_text, sym_found>>

NoResponse == [path |-> "", status |-> 0, detail |-> "", data |-> None]

InitCore ==
  /\ CACHED_SYMBOLS = None
  /\ pc = [t \in Threads |-> "idle"]
  /\ op = [t \in Threads |-> "gvs"]
  /\ attempt = [t \in Threads |-> 0]
  /\ log = [t \in Threads |-> <<>>]
  /\ response = [t \in Threads |-> None]
  /\ body = [t \in Threads |-> NoBody]
  /\ resolved = [t \in Threads |-> NoRet]
  /\ ret = [t \in Threads |-> NoRet]
  /\ ncalls = 0
  /\ queries = 0
  /\ first_ret = NoRet
  /\ price_data = <<>>
  /\ handler = "none"
  /\ http = NoResponse
  /\ last_successful_data_fetch = None
  /\ services_health = "unknown"
  /\ sym_found = NoRet

Init ==
  /\ InitCore
  /\ sym_text = <<>>

\* ------------------------------------------------------------- robust_post
Event(ep, o) == [ep |-> ep, exc |-> o.exc, status |-> o.status]
SleepEvent == [ep |-> "sleep", exc |-> FALSE, status |-> 0]

\* response.status_code == 200
IsSuccess_2xx(status) == 200 <= status /\ status < 300
IsSuccess(status) == status = 200

\* bool(response) of `if not response`: requests.Response is truthy when its
\* status is below 400; None is falsy
Truthy(r) == r # None /\ r.status < 400

\* `if attempt < max_retries - 1` of the except clause: sleep and go on
RetryAfterError_always(a) == a < max_retries
RetryAfterError(a) == a < max_retries - 1

\* After a status other than 200 the loop goes on at once: the next iteration
\* of `for attempt in range(max_retries)`, or the code after the loop
AfterStatus(a) == IF a + 1 < max_retries THEN "rp_primary" ELSE "rp_fallback"

\* One iteration of `for attempt in range(max_retries)`: a POST to PRIMARY_URL
PrimaryAttempt(t) ==
  /\ pc[t] = "rp_primary"
  /\ \E o \in Outcomes :
       /\ log' = [log EXCEPT ![t] = Append(@, Event("primary", o))]
       /\ IF ~o.exc /\ IsSuccess(o.status)
          THEN \* return response
               /\ response' = [response EXCEPT ![t] = [status |-> o.status]]
               /\ pc' = [pc EXCEPT ![t] = "rp_return"]
               /\ UNCHANGED attempt
          ELSE IF o.exc /\ RetryAfterError(attempt[t])
          THEN \* except RequestException: time.sleep(2) comes next
               /\ pc' = [pc EXCEPT ![t] = "rp_sleep"]
               /\ UNCHANGED <<attempt, response>>
          ELSE IF o.exc
          THEN \* except RequestException on the last attempt: break
               /\ pc' = [pc EXCEPT ![t] = "rp_fallback"]
               /\ UNCHANGED <<attempt, response>>
          ELSE \* a status other than 200: warn, next iteration of the loop
               /\ attempt' = [attempt EXCEPT ![t] = @ + 1]
               /\ pc' = [pc EXCEPT ![t] = AfterStatus(attempt[t])]
               /\ UNCHANGED response
  /\ UNCHANGED <<CACHED_SYMBOLS, op, body, resolved, ret, ncalls, queries,
                 first_ret, price_data>>
  /\ UNCHANGED extVars

\* time.sleep(2), then the next iteration of the loop
BackoffSleep(t) ==
  /\ pc[t] = "rp_sleep"
  /\ log' = [log EXCEPT ![t] = Append(@, SleepEvent)]
  /\ attempt' = [attempt EXCEPT ![t] = @ + 1]
  /\ pc' = [pc EXCEPT ![t] = "rp_primary"]
  /\ UNCHANGED <<CACHED_SYMBOLS, op, response, body, resolved, ret, ncalls,
                 queries, first_ret, price_data>>
  /\ UNCHANGED extVars

\* The POST to FALLBACK_URL after the loop
FallbackAttempt(t) ==
  /\ pc[t] = "rp_fallback"
  /\ \E o \in Outcomes :
       /\ log' = [log EXCEPT ![t] = Append(@, Event("fallback", o))]
       /\ response' = [response EXCEPT ![t] =
                         IF ~o.exc /\ IsSuccess(o.status)
                         THEN [status |-> o.status] ELSE None]
  /\ pc' = [pc EXCEPT ![t] = "rp_return"]
  /\ UNCHANGED <<CACHED_SYMBOLS, op, attempt, body, resolved, ret, ncalls,
                 queries, first_ret, price_data>>
  /\ UNCHANGED extVars

\* robust_post returns to its caller: its locals are gone, its result stays
RobustPostReturn(t) ==
  /\ pc[t] = "rp_return"
  /\ pc' = [pc EXCEPT ![t] = IF op[t] = "gvs" THEN "gvs_resolve" ELSE "md_extract"]
  /\ log' = [log EXCEPT ![t] = <<>>]
  /\ attempt' = [attempt EXCEPT ![t] = 0]
  /\ UNCHANGED <<CACHED_SYMBOLS, op, response, body, resolved, ret, ncalls,
                 queries, first_ret, price_data>>
  /\ UNCHANGED extVars

\* -------------------------------------------------------- get_valid_symbols
\* data = response.json(); message = data.get('message', '')
GetMessage(b) ==
  IF b.kind = "invalid" THEN Exc("JSONDecodeError")
  ELSE IF b.kind = "array" THEN Exc("AttributeError")
  ELSE Some(b.message)

SymbolsFallback_short == Some(ListToSet(SubSeq(LOCAL_FALLBACK_DATA, 1, 8)))
\* set(LOCAL_FALLBACK_DATA["symbols"])
SymbolsFallback == Some(ListToSet(LOCAL_FALLBACK_DATA))

\* `if CACHED_SYMBOLS is not None`
CacheHit_never(c) == FALSE
CacheHit(c) == c # None

ResolveSymbols_unchecked(b) ==
  LET m == GetMessage(b)
  IN IF IsExc(m) THEN SymbolsFallback
     ELSE Some(ListToSet(FindSymbols(m.val)))

\* The try block of get_valid_symbols and what follows it: the set to cache
\* for a response that robust_post returned
ResolveSymbols(b) ==
  LET m == GetMessage(b)
  IN IF IsExc(m) THEN SymbolsFallback
     ELSE LET found_symbols == FindSymbols(m.val)
          IN IF found_symbols # <<>>
             THEN Some(ListToSet(found_symbols))
             ELSE SymbolsFallback

\* CACHED_SYMBOLS = set(...): the set is built first, then bound to the global
\* name in one store
Publish_in_place(s) == Some(s.val \ {CHOOSE x \in s.val : TRUE})
Publish(s) == s

AllIdle == \A u \in Threads : pc[u] = "idle"

\* Entering a call: the thread's record of its last call is dropped
Enter(t, which, first) ==
  /\ pc[t] = "idle"
  /\ op' = [op EXCEPT ![t] = which]
  /\ pc' = [pc EXCEPT ![t] = first]
  /\ body' = [body EXCEPT ![t] = NoBody]
  /\ response' = [response EXCEPT ![t] = None]
  /\ ret' = [ret EXCEPT ![t] = NoRet]
  /\ price_data' = <<>>
  /\ UNCHANGED <<attempt, log, resolved>>

BeginCall(t) ==
  /\ ncalls < MaxCalls
  /\ ncalls' = ncalls + 1
  /\ Enter(t, "gvs", "gvs_check")

\* A thread enters get_valid_symbols
GvsStart(t) ==
  /\ BeginCall(t)
  /\ UNCHANGED <<CACHED_SYMBOLS, queries, first_ret>>
  /\ UNCHANGED extVars

\* The same, when the callers are sequential
GvsStartSeq(t) ==
  /\ AllIdle
  /\ BeginCall(t)
  /\ UNCHANGED <<CACHED_SYMBOLS, queries, first_ret>>
  /\ UNCHANGED extVars

\* `if CACHED_SYMBOLS is not None:` and, when it is None, the call of robust_post
GvsCheck(t) ==
  /\ pc[t] = "gvs_check"
  /\ IF CacheHit(CACHED_SYMBOLS)
     THEN /\ pc' = [pc EXCEPT ![t] = "gvs_ret_cached"]
          /\ UNCHANGED queries
     ELSE /\ pc' = [pc EXCEPT ![t] = "rp_primary"]
          /\ queries' = queries + 1
  /\ UNCHANGED <<CACHED_SYMBOLS, op, attempt, log, response, body, resolved,
                 ret, ncalls, first_ret, price_data>>
  /\ UNCHANGED extVars

\* get_valid_symbols returns v: its locals are gone
GvsReturns(t, v) ==
  /\ ret' = [ret EXCEPT ![t] = v]
  /\ pc' = [pc EXCEPT ![t] = "idle"]
  /\ response' = [response EXCEPT ![t] = None]
  /\ body' = [body EXCEPT ![t] = NoBody]
  /\ resolved' = [resolved EXCEPT ![t] = NoRet]
  /\ first_ret' = IF first_ret = NoRet THEN v ELSE first_ret
  /\ UNCHANGED <<CACHED_SYMBOLS, op, attempt, log, ncalls, queries, price_data>>
  /\ UNCHANGED extVars

\* `return CACHED_SYMBOLS` of the cache-hit branch: a second read of the global
GvsReturnCached(t) ==
  /\ pc[t] = "gvs_ret_cached"
  /\ GvsReturns(t, CACHED_SYMBOLS)

\* From robust_post's return to the set to store: `if not response`, or the
\* try block on the body the provider sent
GvsResolve(t) ==
  /\ pc[t] = "gvs_resolve"
  /\ IF ~Truthy(response[t])
     THEN /\ resolved' = [resolved EXCEPT ![t] = SymbolsFallback]
          /\ UNCHANGED body
     ELSE \E b \in SymbolBodies :
            /\ body' = [body EXCEPT ![t] = b]
            /\ resolved' = [resolved EXCEPT ![t] = ResolveSymbols(b)]
  /\ pc' = [pc EXCEPT ![t] = "gvs_store"]
  /\ UNCHANGED <<CACHED_SYMBOLS, op, attempt, log, response, ret, ncalls,
                 queries, first_ret, price_data>>
  /\ UNCHANGED extVars

\* CACHED_SYMBOLS = set(...)
GvsStore(t) ==
  /\ pc[t] = "gvs_store"
  /\ CACHED_SYMBOLS' = Publish(resolved[t])
  /\ pc' = [pc EXCEPT ![t] = "gvs_return"]
  /\ UNCHANGED <<op, attempt, log, response, body, resolved, ret, ncalls,
                 queries, first_ret, price_data>>
  /\ UNCHANGED extVars

\* `return CACHED_SYMBOLS` after the store: a read of the global
GvsReturn(t) ==
  /\ pc[t] = "gvs_return"
  /\ GvsReturns(t, CACHED_SYMBOLS)

\* found_symbols = re.findall(...) on a message, and the set the try block
\* and what follows it resolve to for a body with that message
ExtractSymbols(t) ==
  /\ sym_found = NoRet
  /\ sym_found' = Some(ListToSet(FindSymbols(sym_text)))
  /\ resolved' = [resolved EXCEPT ![t] =
                    ResolveSymbols([kind |-> "msg", message |-> sym_text])]
  /\ UNCHANGED <<CACHED_SYMBOLS, pc, op, attempt, log, response, body, ret,
                 ncalls, queries, first_ret, price_data, handler, http,
                 last_successful_data_fetch, services_health, sym_text>>

\* ---------------------------------------------------------- get_market_data
\* re.findall of the three field patterns on the message
FindPrices(message) == message.prices
FindSizes(message) == message.sizes
FindTimestamps(message) == message.timestamps

Min2(a, b) == IF a <= b THEN a ELSE b

\* The dict of one zip item: pd.to_datetime, float and int, any of which may
\* raise ValueError
ParseEntry(price, size, timestamp) ==
  LET ts == ToDatetime(timestamp)
      pr == ParseFloat(price)
      vol == ParseInt(size)
  IN IF IsExc(ts) THEN ts
     ELSE IF IsExc(pr) THEN pr
     ELSE IF IsExc(vol) THEN vol
     ELSE Some([timestamp |-> ts.val, price |-> pr.val, volume |-> vol.val])

RECURSIVE ZipEntries_stopAtInvalid(_, _, _, _)
ZipEntries_stopAtInvalid(prices, sizes, timestamps, i) ==
  IF i > Min2(Len(prices), Min2(Len(sizes), Len(timestamps))) THEN <<>>
  ELSE LET e == ParseEntry(prices[i], sizes[i], timestamps[i])
       IN IF IsExc(e) THEN <<>>
          ELSE <<e.val>> \o ZipEntries_stopAtInvalid(prices, sizes, timestamps, i + 1)

\* The loop over zip(prices, sizes, timestamps): zip stops at the shortest
\* list; an item that raises ValueError is skipped
RECURSIVE ZipEntries(_, _, _, _)
ZipEntries(prices, sizes, timestamps, i) ==
  IF i > Min2(Len(prices), Min2(Len(sizes), Len(timestamps))) THEN <<>>
  ELSE LET e == ParseEntry(prices[i], sizes[i], timestamps[i])
       IN (IF IsExc(e) THEN <<>> ELSE <<e.val>>)
          \o ZipEntries(prices, sizes, timestamps, i + 1)

\* `except Exception as e: ... return None`
OuterExcept_ValueError(e) == IF e.name = "JSONDecodeError" THEN None ELSE e
OuterExcept(e) == None

\* `if not (prices and sizes and timestamps)`
MissingFields(prices, sizes, timestamps) ==
  prices = <<>> \/ sizes = <<>> \/ timestamps = <<>>

ExtractTicks_noEmptyCheck(b) ==
  LET m == GetMessage(b)
  IN IF IsExc(m) THEN OuterExcept(m)
     ELSE LET prices == FindPrices(m.val)
              sizes == FindSizes(m.val)
              timestamps == FindTimestamps(m.val)
          IN IF MissingFields(prices, sizes, timestamps) THEN None
             ELSE Some(ZipEntries(prices, sizes, timestamps, 1))

\* The try block of get_market_data up to `if not price_data`: None, a raised
\* exception as the except clause turns it, or Some(price_data)
ExtractTicks(b) ==
  LET m == GetMessage(b)
  IN IF IsExc(m) THEN OuterExcept(m)
     ELSE LET prices == FindPrices(m.val)
              sizes == FindSizes(m.val)
              timestamps == FindTimestamps(m.val)
          IN IF MissingFields(prices, sizes, timestamps) THEN None
             ELSE LET pd == ZipEntries(prices, sizes, timestamps, 1)
                  IN IF pd = <<>> THEN None ELSE Some(pd)

\* df.sort_values('timestamp'): the row orders it may produce. The default
\* kind is quicksort, which is not stable: rows with equal timestamps may come
\* out in any order
Injective(p, n) == \A i, j \in 1..n : p[i] = p[j] => i = j
SortValues(rows) ==
  LET n == Len(rows)
  IN {[i \in 1..n |-> rows[p[i]]] :
        p \in {q \in [1..n -> 1..n] :
                 /\ Injective(q, n)
                 /\ \A i, j \in 1..n : i < j =>
                      rows[q[i]].timestamp <= rows[q[j]].timestamp}}

RECURSIVE SortedKeys(_)
SortedKeys(S) ==
  IF S = {} THEN <<>> ELSE <<MinOf(S)>> \o SortedKeys(S \ {MinOf(S)})

\* Addition in an int64 column: the sum wraps around at 2^63, that is at q = 2
Int64Add(a, b) == IntPair(((a.q + b.q + 2) % 4) - 2, a.r + b.r)

\* 'volume': 'sum' on the int64 column that the parsed sizes make
RECURSIVE SumVolume(_)
SumVolume(rows) ==
  IF rows = <<>> THEN IntPair(0, 0)
  ELSE Int64Add(rows[1].volume, SumVolume(Tail(rows)))

\* .agg({'price': ['first', 'max', 'min', 'last'], 'volume': 'sum'}) on the
\* rows of one group, in the frame's row order
AggRow(k, rows) ==
  [timestamp |-> k,
   open |-> rows[1].price,
   high |-> MaxOf({rows[i].price : i \in 1..Len(rows)}),
   low |-> MinOf({rows[i].price : i \in 1..Len(rows)}),
   close |-> rows[Len(rows)].price,
   volume |-> SumVolume(rows)]

\* groupby('timestamp'): the group keys, ascending (sort=True is the default)
GroupKeys_unsorted(rows) == [i \in 1..Len(rows) |-> rows[i].timestamp]
GroupKeys(rows) == SortedKeys({rows[i].timestamp : i \in 1..Len(rows)})

\* df.groupby('timestamp').agg(...).reset_index(), columns renamed, indexed by
\* timestamp: one bar per group key
GroupByAgg(rows) ==
  LET keys == GroupKeys(rows)
  IN [g \in 1..Len(keys) |->
        AggRow(keys[g], SelectSeq(rows, LAMBDA r : r.timestamp = keys[g]))]

\* The caller enters get_market_data, which calls robust_post first
MdStart(t) ==
  /\ Enter(t, "md", "rp_primary")
  /\ UNCHANGED <<CACHED_SYMBOLS, ncalls, queries, first_ret>>
  /\ UNCHANGED extVars

MdReturns(t, v) ==
  /\ ret' = [ret EXCEPT ![t] = v]
  /\ pc' = [pc EXCEPT ![t] = "idle"]

\* `if not response: return None`, else the try block on the body the provider
\* sent, up to `if not price_data: return None`
MdExtractFrom(t, bodies) ==
  /\ pc[t] = "md_extract"
  /\ IF ~Truthy(response[t])
     THEN /\ MdReturns(t, None)
          /\ UNCHANGED <<body, price_data>>
     ELSE \E b \in bodies :
            /\ body' = [body EXCEPT ![t] = b]
            /\ LET r == ExtractTicks(b)
               IN IF r.tag = "value"
                  THEN /\ price_data' = r.val
                       /\ pc' = [pc EXCEPT ![t] = "md_aggregate"]
                       /\ UNCHANGED ret
                  ELSE /\ MdReturns(t, r)
                       /\ UNCHANGED price_data
  /\ UNCHANGED <<CACHED_SYMBOLS, op, attempt, log, response, resolved, ncalls,
                 queries, first_ret>>
  /\ UNCHANGED extVars

MdExtract(t) == MdExtractFrom(t, MarketBodies)

\* The DataFrame, sort_values, groupby/agg and the return of the bars
MdAggregate(t) ==
  /\ pc[t] = "md_aggregate"
  /\ \E df \in SortValues(price_data) : MdReturns(t, Some(GroupByAgg(df)))
  /\ UNCHANGED <<CACHED_SYMBOLS, op, attempt, log, response, body, resolved,
                 ncalls, queries, first_ret, price_data>>
  /\ UNCHANGED extVars

\* --------------------------------------------------- test_dappier_connection
\* `if response.status_code == 200: return True`
ConnectionOk_2xx(status) == 200 <= status /\ status < 300
ConnectionOk(status) == status = 200

\* test_dappier_connection returns v to check_services_health
ProbeReturns(t, v) ==
  /\ ret' = [ret EXCEPT ![t] = Some(v)]
  /\ pc' = [pc EXCEPT ![t] = "probe_done"]

\* The POST to PRIMARY_URL: True on status 200, else on to the fallback
ProbePrimary(t) ==
  /\ pc[t] = "probe_primary"
  /\ \E o \in Outcomes :
       /\ log' = [log EXCEPT ![t] = Append(@, Event("primary", o))]
       /\ IF ~o.exc /\ ConnectionOk(o.status)
          THEN ProbeReturns(t, TRUE)
          ELSE /\ pc' = [pc EXCEPT ![t] = "probe_fallback"]
               /\ UNCHANGED ret
  /\ UNCHANGED <<CACHED_SYMBOLS, op, attempt, response, body, resolved, ncalls,
                 queries, first_ret, price_data>>
  /\ UNCHANGED extVars

\* The POST to FALLBACK_URL: True on status 200, else `return False`
ProbeFallback(t) ==
  /\ pc[t] = "probe_fallback"
  /\ \E o \in Outcomes :
       /\ log' = [log EXCEPT ![t] = Append(@, Event("fallback", o))]
       /\ ProbeReturns(t, ~o.exc /\ ConnectionOk(o.status))
  /\ UNCHANGED <<CACHED_SYMBOLS, op, attempt, response, body, resolved, ncalls,
                 queries, first_ret, price_data>>
  /\ UNCHANGED extVars

\* ------------------------------------------------------------- api_service
\* The handlers are coroutines of one event loop and call the fetcher without
\* awaiting: one request is served at a time. The only await, root's probe in
\* a worker thread, touches no state of the service.
ApiCaller == "t1"

\* datetime.utcnow(): the clock, read as the number of requests received so
\* far, so that a later request reads a later time
Utcnow == ncalls

HttpResponse(status, detail, data) ==
  [status |-> status, detail |-> detail, data |-> data]

\* A request is routed to its handler, which makes its first call
Request(t, endpoint, which, first) ==
  /\ handler = "none"
  /\ ncalls < MaxCalls
  /\ ncalls' = ncalls + 1
  /\ handler' = endpoint
  /\ http' = NoResponse
  /\ Enter(t, which, first)
  /\ UNCHANGED <<CACHED_SYMBOLS, queries, first_ret, last_successful_data_fetch,
                 services_health, sym_text, sym_found>>

\* GET /: check_services_health() calls test_dappier_connection
ReqRoot(t) == Request(t, "/", "probe", "probe_primary")
\* GET /symbols
ReqSymbols(t) == Request(t, "/symbols", "gvs", "gvs_check")
\* GET /market-data/{symbol}
ReqMarketData(t) == Request(t, "/market-data", "md", "rp_primary")
\* GET /market-data/{symbol}/latest
ReqLatest(t) == Request(t, "/latest", "md", "rp_primary")

\* check_services_health: the status it records for the probe's answer
DappierStatus(dappier_status) ==
  IF dappier_status THEN "healthy" ELSE "degraded"

\* The rest of check_services_health, then root's `symbols = get_valid_symbols()`
RootSymbols(t) ==
  /\ handler = "/"
  /\ pc[t] = "probe_done"
  /\ services_health' = DappierStatus(ret[t].val)
  /\ op' = [op EXCEPT ![t] = "gvs"]
  /\ pc' = [pc EXCEPT ![t] = "gvs_check"]
  /\ ret' = [ret EXCEPT ![t] = NoRet]
  /\ log' = [log EXCEPT ![t] = <<>>]
  /\ UNCHANGED <<CACHED_SYMBOLS, attempt, response, body, resolved, ncalls,
                 queries, first_ret, price_data, handler, http,
                 last_successful_data_fetch, sym_text, sym_found>>

\* The handler's answer leaves; its locals are gone
Respond(t, r) ==
  /\ http' = [path |-> handler, status |-> r.status, detail |-> r.detail,
              data |-> r.data]
  /\ handler' = "none"
  /\ ret' = [ret EXCEPT ![t] = NoRet]
  /\ body' = [body EXCEPT ![t] = NoBody]
  /\ response' = [response EXCEPT ![t] = None]
  /\ price_data' = <<>>
  /\ services_health' = "unknown"
  /\ UNCHANGED <<CACHED_SYMBOLS, pc, op, attempt, log, resolved, ncalls,
                 queries, first_ret, sym_text, sym_found>>

Returned(t, endpoint, which) ==
  handler = endpoint /\ op[t] = which /\ pc[t] = "idle" /\ ret[t] # NoRet

\* root, from `overall_status = "online"` on; len(None) raises TypeError, which
\* nothing catches
root(health, symbols, last) ==
  IF symbols = None THEN HttpResponse(500, "Internal Server Error", None)
  ELSE HttpResponse(200, IF health = "unhealthy" THEN "degraded" ELSE "online",
                    [symbols_count |-> Cardinality(symbols.val),
                     last_successful_fetch |-> last])

RootRespond(t) ==
  /\ Returned(t, "/", "gvs")
  /\ Respond(t, root(services_health, ret[t], last_successful_data_fetch))
  /\ UNCHANGED last_successful_data_fetch

\* available_symbols: `if not symbols` raises the 503 "Unable to fetch
\* symbols", which `except Exception` wraps into the 503 "Service error"
available_symbols(symbols) ==
  IF symbols = None \/ symbols.val = {}
  THEN HttpResponse(503, "Service error: 503: Unable to fetch symbols, service may be degraded", None)
  ELSE HttpResponse(200, "", symbols)

SymbolsRespond(t) ==
  /\ Returned(t, "/symbols", "gvs")
  /\ Respond(t, available_symbols(ret[t]))
  /\ UNCHANGED last_successful_data_fetch

\* market_data: the response and the value of last_successful_data_fetch when
\* the handler is left. The 404 is an HTTPException, which is raised again.
market_data_eager(df, now, last) ==
  [http |-> IF df = None THEN HttpResponse(404, "No data found for symbol", None)
            ELSE HttpResponse(200, "", [last_updated |-> Some(now), data |-> df.val]),
   last |-> Some(now)]
market_data(df, now, last) ==
  IF df = None
  THEN [http |-> HttpResponse(404, "No data found for symbol", None),
        last |-> last]
  ELSE [http |-> HttpResponse(200, "", [last_updated |-> Some(now), data |-> df.val]),
        last |-> Some(now)]

MarketDataRespond(t) ==
  /\ Returned(t, "/market-data", "md")
  /\ LET r == market_data(ret[t], Utcnow, last_successful_data_fetch)
     IN /\ Respond(t, r.http)
        /\ last_successful_data_fetch' = r.last

\* latest_price: df.iloc[-1] of a frame without rows raises IndexError, which
\* `except Exception` turns into the 503
latest_price(df) ==
  IF df = None THEN HttpResponse(404, "No data found for symbol", None)
  ELSE IF Len(df.val) = 0
  THEN HttpResponse(503, "Service error: single positional indexer is out-of-bounds", None)
  ELSE LET latest == df.val[Len(df.val)]
       IN HttpResponse(200, "", [timestamp |-> latest.timestamp,
                                 price |-> latest.close,
                                 volume |-> latest.volume])

LatestRespond(t) ==
  /\ Returned(t, "/latest", "md")
  /\ Respond(t, latest_price(ret[t]))
  /\ UNCHANGED last_successful_data_fetch

\* The bodies the provider answers a handler's market-data query with: not
\* JSON, no tick, one tick, one tick with a date that does not exist, two
\* ticks of one window, two ticks of two windows
ApiTick(ts) == [prices |-> << <<"9">> >>, sizes |-> << <<"5">> >>, timestamps |-> <<ts>>]
ApiTicks(ts1, ts2) ==
  [prices |-> << <<"9">>, <<"1","0">> >>, sizes |-> << <<"5">>, <<"5">> >>,
   timestamps |-> <<ts1, ts2>>]
ApiBodies ==
  {[kind |-> "invalid", message |-> EmptyText],
   [kind |-> "msg", message |-> EmptyText],
   [kind |-> "msg", message |-> ApiTick(Date(2024, 1, 2, 10, 0, 0))],
   [kind |-> "msg", message |-> ApiTick(Date(2024, 2, 30, 10, 0, 0))],
   [kind |-> "msg", message |-> ApiTicks(Date(2024, 1, 2, 10, 0, 0), Date(2024, 1, 2, 10, 0, 0))],
   [kind |-> "msg", message |-> ApiTicks(Date(2024, 1, 2, 10, 3, 0), Date(2024, 1, 2, 10, 0, 0))]}

ApiMdExtract(t) == MdExtractFrom(t, ApiBodies)

\* ----------------------------------------------------------- specifications
Next ==
  \E t \in Threads :
    \/ GvsStart(t)
    \/ GvsCheck(t)
    \/ GvsReturnCached(t)
    \/ PrimaryAttempt(t)
    \/ BackoffSleep(t)
    \/ FallbackAttempt(t)
    \/ RobustPostReturn(t)
    \/ GvsResolve(t)
    \/ GvsStore(t)
    \/ GvsReturn(t)

Spec == Init /\ [][Next]_vars

NextSeq ==
  \E t \in Threads :
    \/ GvsStartSeq(t)
    \/ GvsCheck(t)
    \/ GvsReturnCached(t)
    \/ PrimaryAttempt(t)
    \/ BackoffSleep(t)
    \/ FallbackAttempt(t)
    \/ RobustPostReturn(t)
    \/ GvsResolve(t)
    \/ GvsStore(t)
    \/ GvsReturn(t)

SpecSeq == Init /\ [][NextSeq]_vars

\* get_market_data reads and writes no state that outlives the call, so the
\* calls of one caller show every behaviour it has
MdCaller == "t1"

NextMD ==
  \E t \in {MdCaller} :
    \/ MdStart(t)
    \/ PrimaryAttempt(t)
    \/ BackoffSleep(t)
    \/ FallbackAttempt(t)
    \/ RobustPostReturn(t)
    \/ MdExtract(t)
    \/ MdAggregate(t)

SpecMD == Init /\ [][NextMD]_vars

\* The symbol pattern applied to one text
InitSym ==
  /\ InitCore
  /\ sym_text \in SymTexts

NextSym == \E t \in {MdCaller} : ExtractSymbols(t)

SpecSym == InitSym /\ [][NextSym]_vars

\* The service: requests to its four endpoints, one at a time
NextAPI ==
  \E t \in {ApiCaller} :
    \/ ReqRoot(t)
    \/ ProbePrimary(t)
    \/ ProbeFallback(t)
    \/ RootSymbols(t)
    \/ ReqSymbols(t)
    \/ ReqMarketData(t)
    \/ ReqLatest(t)
    \/ GvsCheck(t)
    \/ GvsReturnCached(t)
    \/ PrimaryAttempt(t)
    \/ BackoffSleep(t)
    \/ FallbackAttempt(t)
    \/ RobustPostReturn(t)
    \/ GvsResolve(t)
    \/ GvsStore(t)
    \/ GvsReturn(t)
    \/ ApiMdExtract(t)
    \/ MdAggregate(t)
    \/ RootRespond(t)
    \/ SymbolsRespond(t)
    \/ MarketDataRespond(t)
    \/ LatestRespond(t)

SpecAPI == Init /\ [][NextAPI]_vars

\* ------------------------------------------------------------------ claims
\* The network attempts of a call so far, without the sleeps
Attempts(t) == SelectSeq(log[t], LAMBDA e : e.ep # "sleep")
Is200(e) == ~e.exc /\ e.status = 200
Is2xx(e) == ~e.exc /\ e.status >= 200 /\ e.status < 300

\* C1: in one call of robust_post the fallback endpoint is attempted only
\* after exactly 3 failed primary attempts, exactly once, and nothing follows
\* it; the call returns failure only after 4 attempts; a primary that fails
\* transport 3 times with a fallback that succeeds gives success after exactly
\* 4 attempts; a primary answering 500 every time with a failing fallback
\* gives failure after exactly 4 attempts.
C1_FallbackAfterThreePrimary ==
  \A t \in Threads :
    LET a == Attempts(t)
        n == Len(a)
    IN /\ n <= 4
       /\ \A i \in 1..n :
            a[i].ep = "fallback" =>
              /\ i = 4
              /\ i = n
              /\ \A j \in 1..3 : a[j].ep = "primary" /\ ~Is200(a[j])
       /\ pc[t] = "rp_return" =>
            /\ response[t] = None => n = 4
            /\ (n >= 3 /\ \A j \in 1..3 : a[j].exc) =>
                 /\ n = 4
                 /\ a[4].ep = "fallback"
                 /\ Is200(a[4]) => response[t] # None
            /\ (n >= 3 /\ \A j \in 1..3 : ~a[j].exc /\ a[j].status = 500) =>
                 /\ n = 4
                 /\ a[4].ep = "fallback"
                 /\ ~Is200(a[4]) => response[t] = None

C1_Witness ==
  \E t \in Threads :
    /\ pc[t] = "rp_return"
    /\ Len(Attempts(t)) = 4
    /\ \A j \in 1..3 : Attempts(t)[j].exc
    /\ Is200(Attempts(t)[4])
    /\ response[t] # None

\* C2 as stated: the first 2xx response from either endpoint is returned, None
\* is returned only if no attempt produced a 2xx status, and no attempt
\* follows a 2xx response.
C2_First2xxReturned ==
  \A t \in Threads :
    LET a == Attempts(t)
        n == Len(a)
    IN /\ \A i \in 1..n : Is2xx(a[i]) => i = n
       /\ pc[t] = "rp_return" =>
            /\ response[t] = None => \A i \in 1..n : ~Is2xx(a[i])
            /\ response[t] # None => Is2xx(a[n]) /\ response[t].status = a[n].status

\* C2 as amended: the first response with status 200 from either endpoint is
\* returned, None is returned exactly when no attempt produced status 200, and
\* no attempt follows a 200 response; any other status, 2xx or not, is a
\* failed attempt.
C2_First200Returned ==
  \A t \in Threads :
    LET a == Attempts(t)
        n == Len(a)
    IN /\ \A i \in 1..n : Is200(a[i]) => i = n
       /\ pc[t] = "rp_return" =>
            /\ response[t] = None <=> \A i \in 1..n : ~Is200(a[i])
            /\ response[t] # None => Is200(a[n]) /\ response[t].status = 200

C2_Witness ==
  \E t \in Threads :
    /\ pc[t] = "rp_return"
    /\ Len(Attempts(t)) = 2
    /\ Is2xx(Attempts(t)[1])
    /\ Is200(Attempts(t)[2])
    /\ response[t] # None

\* The fixed list of 9 tickers
NineTickers ==
  Some({ <<"A","A","P","L">>, <<"M","E","T","A">>, <<"G","O","O","G","L">>,
         <<"M","S","F","T">>, <<"A","M","Z","N">>, <<"T","S","L","A">>,
         <<"N","V","D","A">>, <<"I","B","M">>, <<"O","R","C","L">> })

\* A get_market_data call that has returned
MdDone(t) == op[t] = "md" /\ pc[t] = "idle" /\ ret[t] # NoRet
MdBars(t) == MdDone(t) /\ ret[t].tag = "value"
Counts(t) ==
  <<Len(body[t].message.prices), Len(body[t].message.sizes),
    Len(body[t].message.timestamps)>>

\* C3: whenever the numbers of Price, Size and Timestamp matches differ, or
\* one of them is zero, get_market_data yields no ticks and returns None.
C3_FailsClosedOnMisalignedCounts ==
  \A t \in Threads :
    (/\ MdDone(t)
     /\ body[t].kind = "msg"
     /\ \/ Counts(t)[1] # Counts(t)[2]
        \/ Counts(t)[2] # Counts(t)[3]
        \/ 0 \in {Counts(t)[1], Counts(t)[2], Counts(t)[3]})
    => ret[t] = None /\ price_data = <<>>

\* The valid ticks of one timestamp, in the order of the message
Bucket(k) == SelectSeq(price_data, LAMBDA r : r.timestamp = k)

\* C4: every bar has open = price of the first valid tick of its timestamp in
\* message order, close = price of the last one, high = the largest price,
\* low = the smallest price, volume = the sum of the volumes.
C4_BarsFollowInputOrder ==
  \A t \in Threads :
    MdBars(t) =>
      \A g \in 1..Len(ret[t].val) :
        LET bar == ret[t].val[g]
            b == Bucket(bar.timestamp)
        IN /\ b # <<>>
           /\ bar.open = b[1].price
           /\ bar.close = b[Len(b)].price
           /\ \A i \in 1..Len(b) : b[i].price <= bar.high /\ bar.low <= b[i].price
           /\ \E i \in 1..Len(b) : b[i].price = bar.high
           /\ \E i \in 1..Len(b) : b[i].price = bar.low
           /\ bar.volume = SumVolume(b)

\* C5: with sequential callers, once a first get_valid_symbols call has
\* returned, no call is inside a provider query, every returned value and the
\* cache equal what the first call returned, and at most one provider query
\* is ever made.
C5_LaterCallsServedFromCache ==
  /\ queries <= 1
  /\ first_ret # NoRet =>
       /\ CACHED_SYMBOLS = first_ret
       /\ \A t \in Threads :
            /\ pc[t] \in {"idle", "gvs_check", "gvs_ret_cached"}
            /\ ret[t] # NoRet => ret[t] = first_ret

C5_Witness ==
  /\ ncalls >= 2
  /\ AllIdle
  /\ queries = 1
  /\ first_ret = NineTickers
  /\ \E t \in Threads : ret[t] = NineTickers

\* What C6 says a resolving call returns, from what the requester and the
\* provider gave it
C6_Expected(t) ==
  IF \/ response[t] = None
     \/ body[t].kind # "msg"
     \/ FindSymbols(body[t].message) = <<>>
  THEN NineTickers
  ELSE Some(ListToSet(FindSymbols(body[t].message)))

C7_CacheImmutableOnceSet ==
  [][CACHED_SYMBOLS # None => CACHED_SYMBOLS' = CACHED_SYMBOLS]_vars

\* The sets a resolution can end with
CompleteResults ==
  {NineTickers} \cup
  {Some(ListToSet(FindSymbols(m))) : m \in {x \in SymbolMessages : FindSymbols(x) # <<>>}}

\* C8: with concurrent first-time callers, the cache and every value a call
\* returns is either unset or a complete resolution result.
C8_NoPartialSetObserved ==
  /\ CACHED_SYMBOLS \in {None} \cup CompleteResults
  /\ \A t \in Threads : ret[t] \in {NoRet} \cup CompleteResults

C8_Witness ==
  /\ queries >= 2
  /\ CACHED_SYMBOLS # None
  /\ \E t, u \in Threads :
       /\ pc[t] = "gvs_store"
       /\ resolved[t] # CACHED_SYMBOLS
       /\ ret[u] = CACHED_SYMBOLS

ValidPriceTokens == { <<"9">>, <<"1","0">> }
ValidTimestampTokens == { Date(2024, 1, 2, 10, 0, 0), Date(2024, 1, 2, 10, 3, 0) }

\* No positional triple of the message is valid
NoValidTriple(m) ==
  \A i \in 1..MaxTicks :
    (i <= Len(m.prices) /\ i <= Len(m.sizes) /\ i <= Len(m.timestamps)) =>
      m.prices[i] \notin ValidPriceTokens \/ m.timestamps[i] \notin ValidTimestampTokens

\* C9: get_market_data never raises, and returns None when the requester
\* failed, the body could not be parsed, a field is missing, or no tick is
\* valid.
C9_NoneOnEveryFailure ==
  \A t \in Threads :
    MdDone(t) =>
      /\ ret[t].tag # "exception"
      /\ (\/ response[t] = None
          \/ body[t].kind # "msg"
          \/ 0 \in {Counts(t)[1], Counts(t)[2], Counts(t)[3]}
          \/ NoValidTriple(body[t].message))
         => ret[t] = None

C9_Witness ==
  \E t \in Threads :
    /\ MdDone(t)
    /\ response[t] # None
    /\ body[t].kind = "array"
    /\ ret[t] = None

\* C10: the bars are strictly ascending by timestamp, there is exactly one bar
\* per distinct timestamp among the valid ticks, and ticks with pairwise
\* distinct timestamps give as many bars as ticks.
C10_BarsStrictlyAscending ==
  \A t \in Threads :
    MdBars(t) =>
      LET bars == ret[t].val
          n == Len(price_data)
      IN /\ \A i, j \in 1..Len(bars) : i < j => bars[i].timestamp < bars[j].timestamp
         /\ {bars[i].timestamp : i \in 1..Len(bars)}
              = {price_data[i].timestamp : i \in 1..n}
         /\ (\A i, j \in 1..n : i # j => price_data[i].timestamp # price_data[j].timestamp)
              => Len(bars) = n

C10_Witness ==
  \E t \in Threads :
    /\ MdBars(t)
    /\ Len(price_data) = 3
    /\ Len(ret[t].val) = 2
    /\ price_data[1].timestamp > price_data[2].timestamp

\* The probe's attempts and answer, when the statuses in S are what counts as
\* a successful attempt
Succeeded(e, S) == ~e.exc /\ e.status \in S
ProbeShape(t, S) ==
  /\ Len(log[t]) <= 2
  /\ (Len(log[t]) >= 1 => log[t][1].ep = "primary")
  /\ (Len(log[t]) = 2 => log[t][2].ep = "fallback" /\ ~Succeeded(log[t][1], S))
  /\ (pc[t] = "probe_done" =>
        /\ Len(log[t]) >= 1
        /\ (Len(log[t]) = 1 => Succeeded(log[t][1], S))
        /\ ret[t] \in {Some(TRUE), Some(FALSE)}
        /\ (ret[t].val <=> \E i \in 1..Len(log[t]) : Succeeded(log[t][i], S)))

\* C11, as the claim words it: test_dappier_connection attempts the primary
\* once and then, only if that did not return a 2xx status, the fallback once,
\* and returns true exactly when one of its attempts returned a 2xx status
C11_ProbeTrueIff2xx ==
  \A t \in Threads : op[t] = "probe" => ProbeShape(t, 200..299)

\* C11: test_dappier_connection attempts the primary once and then, only if
\* that did not return status 200, the fallback once (2 attempts at most,
\* primary first); it returns true exactly when one of its attempts returned
\* status 200, and it always returns a boolean
C11_ProbeTrueIff200 ==
  \A t \in Threads : op[t] = "probe" => ProbeShape(t, {200})

\* The probe got 204 from the primary, went on to the fallback, which failed,
\* and returned False
C11_Witness ==
  \E t \in Threads :
    /\ op[t] = "probe"
    /\ pc[t] = "probe_done"
    /\ Len(log[t]) = 2
    /\ log[t][1].status = 204
    /\ log[t][2].exc
    /\ ret[t] = Some(FALSE)

IsTicker(s) == Len(s) \in 1..5 /\ \A i \in 1..Len(s) : s[i] \in UpperChars

\* The runs of 1 to 5 uppercase letters of a text that no letter or digit
\* follows: a run starts where no uppercase letter precedes it
UpperRuns(msg) ==
  {SubSeq(msg, i, j) : <<i, j>> \in
     {w \in (1..Len(msg)) \X (1..Len(msg)) :
        /\ w[1] <= w[2]
        /\ IsTicker(SubSeq(msg, w[1], w[2]))
        /\ (w[1] = 1 \/ msg[w[1] - 1] \notin UpperChars)
        /\ (w[2] = Len(msg) \/
             msg[w[2] + 1] \notin UpperChars \cup LowerChars \cup DigitChars)}}

\* The words of a text that are 1 to 5 uppercase letters: neither preceded nor
\* followed by a letter, a digit or an underscore
UpperWords(msg) ==
  {SubSeq(msg, i, j) : <<i, j>> \in
     {w \in (1..Len(msg)) \X (1..Len(msg)) :
        /\ w[1] <= w[2]
        /\ IsTicker(SubSeq(msg, w[1], w[2]))
        /\ (w[1] = 1 \/ ~IsWordChar(msg[w[1] - 1]))
        /\ (w[2] = Len(msg) \/ ~IsWordChar(msg[w[2] + 1]))}}

ExamplesHold ==
  /\ (sym_text = ExampleUp =>
        sym_found.val = {<<"A","A","P","L">>, <<"M","S","F","T">>, <<"G","O","O","G","L">>})
  /\ (sym_text = ExampleOpen => sym_found.val = {})
  /\ \A t \in Threads :
        resolved[t] # NoRet => \A s \in resolved[t].val : IsTicker(s)

\* C12, as the claim words it: symbol extraction returns exactly the distinct
\* runs of 1 to 5 uppercase letters that no letter or digit follows, the empty
\* set when there is none; the two example texts give {AAPL, MSFT, GOOGL} and
\* the empty set; every member of a resolved set is 1 to 5 uppercase letters
C12_FindsUpperRuns ==
  sym_found # NoRet => sym_found.val = UpperRuns(sym_text) /\ ExamplesHold

\* C12: symbol extraction returns exactly the distinct words of the text that
\* are 1 to 5 uppercase letters, a word being neither preceded nor followed by
\* a letter, a digit or an underscore, and the empty set when there is none;
\* the two example texts give {AAPL, MSFT, GOOGL} and the empty set; every
\* member of a resolved set is 1 to 5 uppercase letters
C12_FindsUpperWords ==
  sym_found # NoRet => sym_found.val = UpperWords(sym_text) /\ ExamplesHold

\* In "bA AA" the A after the lowercase letter is not found, the word AA is
C12_Witness ==
  /\ sym_text = <<"b","A"," ","A","A">>
  /\ sym_found = Some({<<"A","A">>})

\* The primary attempts among the first i events of a call
PrimaryCount(t, i) ==
  Cardinality({j \in 1..i : log[t][j].ep = "primary"})
Sleeps(t) == {i \in 1..Len(log[t]) : log[t][i].ep = "sleep"}

\* C13: in robust_post a transport failure of the first or second primary
\* attempt is followed by the 2-second sleep and then by the next primary
\* attempt; a sleep follows nothing else; the third primary attempt is followed
\* by the fallback attempt without a sleep; a call sleeps twice at most
C13_BackoffBetweenPrimaryAttempts ==
  \A t \in Threads :
    LET l == log[t]
        n == Len(l)
    IN /\ \A i \in 1..n :
            /\ l[i].ep = "sleep" =>
                 /\ i > 1 /\ l[i-1].ep = "primary" /\ l[i-1].exc
                 /\ PrimaryCount(t, i) < 3
                 /\ IF i < n THEN l[i+1].ep = "primary" ELSE pc[t] = "rp_primary"
            /\ (l[i].ep = "primary" /\ l[i].exc /\ PrimaryCount(t, i) < 3) =>
                 IF i < n THEN l[i+1].ep = "sleep" ELSE pc[t] = "rp_sleep"
            /\ (l[i].ep = "primary" /\ PrimaryCount(t, i) = 3 /\ ~Is200(l[i])) =>
                 IF i < n THEN l[i+1].ep = "fallback" ELSE pc[t] = "rp_fallback"
            /\ l[i].ep = "fallback" => i > 1 /\ l[i-1].ep = "primary"
       /\ Cardinality(Sleeps(t)) <= 2

\* Three transport failures on the primary: two sleeps, none before the fallback
C13_Witness ==
  \E t \in Threads :
    /\ pc[t] = "rp_return"
    /\ Len(log[t]) = 6
    /\ \A i \in {1, 3, 5} : log[t][i].ep = "primary" /\ log[t][i].exc
    /\ \A i \in {2, 4} : log[t][i].ep = "sleep"
    /\ log[t][6].ep = "fallback"

\* A primary attempt that was answered with a status that is not a 2xx
StatusFailure(e) == e.ep = "primary" /\ ~e.exc /\ ~Is2xx(e)

\* The answer of a failed status is not returned, the attempt is one of the 3
\* primary attempts of the call, and the next primary attempt or, after the
\* third, the fallback attempt comes next
StatusFailureRetried(t) ==
  LET l == log[t]
      n == Len(l)
  IN /\ PrimaryCount(t, n) <= 3
     /\ \A i \in 1..n :
          StatusFailure(l[i]) =>
            /\ (i = n => pc[t] \in {"rp_primary", "rp_sleep", "rp_fallback"})
            /\ (i = n => response[t] = None)
            /\ (PrimaryCount(t, i) = 3 =>
                  IF i < n THEN l[i+1].ep = "fallback" ELSE pc[t] = "rp_fallback")
            /\ (PrimaryCount(t, i) < 3 =>
                  \E j \in (i+1)..(n+1) :
                     /\ j - i <= 2
                     /\ IF j <= n THEN l[j].ep = "primary" ELSE pc[t] \in {"rp_primary", "rp_sleep"}
                     /\ \A k \in (i+1)..(j-1) : l[k].ep = "sleep")

\* C14, as the claim words it: a non-2xx status on a primary attempt is not
\* returned, uses up one of the 3 primary attempts, and is followed by what
\* follows a transport failure at the same attempt index: the backoff sleep
\* before the next primary attempt
C14_StatusFailureSleepsLikeError ==
  \A t \in Threads :
    /\ StatusFailureRetried(t)
    /\ \A i \in 1..Len(log[t]) :
         (StatusFailure(log[t][i]) /\ PrimaryCount(t, i) < 3) =>
           IF i < Len(log[t]) THEN log[t][i+1].ep = "sleep" ELSE pc[t] = "rp_sleep"

\* The positional triples of a message, and the ones whose three fields parse:
\* the price token is a number, the date exists (a size token always parses)
Triples(m) == Min2(Len(m.prices), Min2(Len(m.sizes), Len(m.timestamps)))
ValidAt(m, i) ==
  m.prices[i] \in ValidPriceTokens /\ m.timestamps[i] \in ValidTimestampTokens
TickAt(m, i) ==
  [timestamp |-> ToDatetime(m.timestamps[i]).val,
   price |-> IF m.prices[i] = <<"9">> THEN 900 ELSE 1000,
   volume |-> IF m.sizes[i] = <<"5">> THEN IntPair(0, 5) ELSE IntPair(1, 0)]
ValidTicks(m) ==
  LET idx == SelectSeq([i \in 1..Triples(m) |-> i], LAMBDA i : ValidAt(m, i))
  IN [k \in 1..Len(idx) |-> TickAt(m, idx[k])]

\* C15: the ticks extracted from a message are exactly its positional triples
\* whose price, size and timestamp all parse, each with its own three fields
\* and in the order of the message (an invalid triple is dropped, the others
\* keep their pairing, extraction goes on), and get_market_data returns None
\* for a message exactly when none of its triples is valid
C15_ValidTriplesSurvive ==
  \A t \in Threads :
    (op[t] = "md" /\ body[t].kind = "msg") =>
      /\ (pc[t] = "md_aggregate" \/ MdBars(t)) =>
           price_data = ValidTicks(body[t].message)
      /\ MdDone(t) => (ret[t] = None <=> ValidTicks(body[t].message) = <<>>)

\* Three triples, the second with a price that does not parse: the first and
\* the third survive, each with its own price and timestamp
C15_Witness ==
  \E t \in Threads :
    /\ MdBars(t)
    /\ body[t].message.prices = << <<"9">>, <<"1",".","2",".","3">>, <<"1","0">> >>
    /\ body[t].message.timestamps =
         << Date(2024, 1, 2, 10, 0, 0), Date(2024, 1, 2, 10, 0, 0),
            Date(2024, 1, 2, 10, 3, 0) >>
    /\ Len(body[t].message.sizes) = 3
    /\ Len(price_data) = 2
    /\ price_data[1].price = 900
    /\ price_data[2].price = 1000
    /\ price_data[2].timestamp > price_data[1].timestamp

\* C16: CACHED_SYMBOLS is None or a set that is not empty; get_valid_symbols
\* never returns an empty set, so that the /symbols handler never takes its
\* "Unable to fetch symbols" branch for what the call returned
C16_CacheNoneOrNonEmpty ==
  /\ CACHED_SYMBOLS = None \/ (CACHED_SYMBOLS.tag = "value" /\ CACHED_SYMBOLS.val # {})
  /\ \A t \in Threads :
       (op[t] = "gvs" /\ ret[t] # NoRet) =>
         /\ ret[t].tag = "value"
         /\ ret[t].val # {}
         /\ available_symbols(ret[t]).status = 200

\* The provider's message held no symbol: the local list was stored, and a
\* call returned it
C16_Witness ==
  \E t, u \in Threads :
    /\ pc[t] = "gvs_return"
    /\ body[t].kind = "msg"
    /\ FindSymbols(body[t].message) = <<>>
    /\ CACHED_SYMBOLS = SymbolsFallback
    /\ op[u] = "gvs"
    /\ ret[u] = SymbolsFallback

\* C17: a result of get_market_data other than None holds one bar at least,
\* made from one valid tick at least, so that latest_price, given the result,
\* finds its last bar and answers 200 with that bar's close; given None it
\* answers 404
C17_BarsNeverEmpty ==
  \A t \in Threads :
    /\ MdBars(t) =>
         /\ Len(ret[t].val) >= 1
         /\ price_data # <<>>
         /\ latest_price(ret[t]).status = 200
         /\ latest_price(ret[t]).data.price = ret[t].val[Len(ret[t].val)].close
    /\ (MdDone(t) /\ ret[t] = None) => latest_price(ret[t]).status = 404

\* Three tokens per field of which one triple is valid: one bar, which is the
\* latest
C17_Witness ==
  \E t \in Threads :
    /\ MdBars(t)
    /\ Triples(body[t].message) = 3
    /\ Len(price_data) = 1
    /\ Len(ret[t].val) = 1
    /\ latest_price(ret[t]).status = 200

\* The sum of a sequence of integers as the integers have it, without a width
RECURSIVE Total(_)
Total(vs) ==
  IF vs = <<>> THEN IntPair(0, 0)
  ELSE IntPair(vs[1].q + Total(Tail(vs)).q, vs[1].r + Total(Tail(vs)).r)

\* C18: for every result of get_market_data that is not None the volumes of the
\* bars add up to the volumes of the valid ticks, and every bar has
\* low <= open <= high and low <= close <= high
C18_VolumeConservedPricesBounded ==
  \A t \in Threads :
    MdBars(t) =>
      LET bars == ret[t].val
      IN /\ Total([i \in 1..Len(bars) |-> bars[i].volume])
              = Total([i \in 1..Len(price_data) |-> price_data[i].volume])
         /\ \A i \in 1..Len(bars) :
              /\ bars[i].low <= bars[i].open /\ bars[i].open <= bars[i].high
              /\ bars[i].low <= bars[i].close /\ bars[i].close <= bars[i].high

\* C19: a /market-data/{symbol} request whose call of get_market_data returned
\* None is answered 404 and leaves last_successful_data_fetch as it was;
\* last_successful_data_fetch changes only in the answer to a
\* /market-data/{symbol} request whose call returned bars; the handlers of
\* /market-data/{symbol}/latest, /symbols and / never change it
C19_FetchTimeFrame ==
  [][/\ \A t \in Threads :
          (Returned(t, "/market-data", "md") /\ ret[t] = None /\ handler' = "none") =>
            /\ http'.status = 404
            /\ last_successful_data_fetch' = last_successful_data_fetch
     /\ last_successful_data_fetch' # last_successful_data_fetch =>
          /\ handler' = "none"
          /\ http'.status = 200
          /\ \E t \in Threads :
               Returned(t, "/market-data", "md") /\ ret[t].tag = "value"
     /\ handler \in {"/latest", "/symbols", "/"} =>
          last_successful_data_fetch' = last_successful_data_fetch
    ]_vars

\* A /market-data request answered 404 after an earlier one had succeeded: the
\* time of the earlier fetch is still there
C19_Witness ==
  /\ handler = "none"
  /\ http.path = "/market-data"
  /\ http.status = 404
  /\ last_successful_data_fetch # None
  /\ last_successful_data_fetch.val < ncalls

====
